---- MODULE Spec2Model ----
(***************************************************************************)
(* Annotation service and document store of the PDF annotation server      *)
(* (Express + MongoDB + GridFS).                                           *)
(* Every route handler is split at its awaits: the database operation it   *)
(* awaits is one atomic step, so requests interleave exactly where the     *)
(* Node event loop lets them.  create/list/getOne await one database       *)
(* operation; edit and delete await a findOne and then a write; upload     *)
(* awaits, for each file, the GridFS write and then the metadata insert.   *)
(***************************************************************************)
EXTENDS Integers, Sequences, FiniteSets, TLC

\* ------------------------------------------------------------------ bounds
MaxAnn      == 2    \* annotations ever inserted (ObjectIds handed out)
MaxDoc      == 2    \* distinct well-formed document ids in requests
MaxTime     == 1    \* ticks of the millisecond clock
MaxInflight == 2    \* edit/delete requests between their two awaits
MaxEdited   == 1    \* annotations created where edits and deletes interleave
MaxUploads  == 1    \* upload requests between two of their awaits
MaxFetches  == 2    \* annotation fetches of the viewer under way
MaxPosts    == 1    \* create requests of the viewer under way
ChunkBytes  == 2    \* bytes per GridFS chunk (scaled down from 255 KiB)

\* ------------------------------------------------------- request alphabet
\* x-user-role header: caller-asserted, unauthenticated; "guest" is a role
\* the server does not know.  The x-user-id header is any string: the four
\* known users A1, D1, D2, R1 and a stranger X9.
Roles   == {"admin", "default", "readonly", "guest"}

\* A request parameter that `new ObjectId(...)` rejects is BadId; a positive
\* number n stands for the 24-hex string of the n-th ObjectId.
BadId    == 0
AnnIds   == 1..MaxAnn
DocIds   == 1..MaxDoc
AnnParam == AnnIds \cup {BadId}
DocParam == DocIds \cup {BadId}

\* An optional JSON body field: <<>> is undefined, <<v>> is the value v.
None    == <<>>
Some(v) == <<v>>

\* type / content / position of a create body as the viewer sends them
\* (position is opaque to the server; a drawing carries no text).
Comment == [type |-> "comment", content |-> "note", position |-> "point"]
Drawing == [type |-> "drawing", content |-> "",     position |-> "strokes"]

\* ------------------------------------------------------------------ state
VARIABLES
  annotations,  \* the "annotations" collection: _id -> document
  nextId,       \* next ObjectId insertOne hands out
  now,          \* value of new Date()
  inflight,     \* edit/delete handlers suspended at their second await
  deletedOk,    \* ids whose DELETE has answered 200
  last,         \* the response most recently sent
  documents,    \* the "documents" collection: _id -> metadata record
  blobs,        \* the GridFS bucket: file id -> stored file
  nextBlob,     \* next ObjectId openUploadStream hands out
  uploads,      \* upload handlers suspended at an await
  uploadedOk,   \* <<document id, bytes sent>> of uploads answered 200
  currentUser,  \* App: the user chosen in the switcher
  selectedDoc,  \* App: the document opened in the viewer, None on the list page
  viewer,       \* PDFViewer: the component's state while it is mounted
  fetches,      \* GET /api/annotations/:documentId requests of the viewer under way
  posts         \* POST /api/annotations requests of the viewer under way

\* the state of the document store
docVars == <<documents, blobs, nextBlob, uploads, uploadedOk>>

\* the state of the annotation service
annVars == <<annotations, nextId, inflight, deletedOk>>

\* the state of the browser client
viewVars == <<currentUser, selectedDoc, viewer, fetches, posts>>

vars == <<annotations, nextId, now, inflight, deletedOk, last, docVars, viewVars>>

\* ---------------------------------------------------------------- helpers
Range(s) == { s[i] : i \in DOMAIN s }

OrElseList_EmptyIsFalsy(opt, dflt) ==
  IF opt = None THEN dflt ELSE IF opt[1] = <<>> THEN dflt ELSE opt[1]

\* JavaScript `a || b` for an optional array (every array is truthy).
OrElseList(opt, dflt) == IF opt = None THEN dflt ELSE opt[1]

OrElseString_EmptyIsValue(opt, dflt) == IF opt = None THEN dflt ELSE opt[1]

\* JavaScript `a || b` for an optional string ("" is falsy).
OrElseString(opt, dflt) ==
  IF opt = None THEN dflt ELSE IF opt[1] = "" THEN dflt ELSE opt[1]

IsValidObjectId(p) == p # BadId

checkPermission_AllowsReadonly(userRole, requiredRoles) ==
  userRole \in requiredRoles \cup {"readonly"}

checkPermission_AllowsDefault(userRole, requiredRoles) ==
  userRole \in requiredRoles \cup {"default"}

checkPermission(userRole, requiredRoles) == userRole \in requiredRoles

DefaultVisibleTo == <<"A1", "D1", "D2">>
AllVisible       == {"A1", "D1", "D2", "R1"}

Insert(coll, id, doc) == [i \in DOMAIN coll \cup {id} |-> IF i = id THEN doc ELSE coll[i]]
Remove(coll, id)      == [i \in DOMAIN coll \ {id} |-> coll[i]]

WithId(id) == [_id |-> id] @@ annotations[id]

\* useState initial values of PDFViewer.  selectedText and tempPosition
\* are None for null; of a selection only its text and of a position only
\* its page are kept; annotations is the list of the ids on display.
InitialViewer ==
  [ annotations    |-> <<>>,
    newAnnotation  |-> "",
    error          |-> "",
    selectedText   |-> None,
    tempPosition   |-> None,
    visibleTo      |-> <<"A1", "D1", "D2", "R1">>,
    drawingMode    |-> FALSE,
    isDrawing      |-> FALSE,
    annotationMode |-> "comment" ]

Init ==
  /\ annotations = [i \in {} |-> 0]
  /\ nextId = 1
  /\ now = 0
  /\ inflight = {}
  /\ deletedOk = {}
  /\ last = [op |-> "none"]
  /\ documents = [i \in {} |-> 0]
  /\ blobs = [i \in {} |-> 0]
  /\ nextBlob = 1
  /\ uploads = {}
  /\ uploadedOk = {}
  /\ currentUser = [id |-> "A1", role |-> "admin"]
  /\ selectedDoc = None
  /\ viewer = InitialViewer
  /\ fetches = {}
  /\ posts = {}

\* ----------------------------------------------------------------- create
NewAnnotation(userId, b) ==
  [ documentId |-> b.documentId,
    createdBy  |-> userId,
    type       |-> b.type,
    content    |-> b.content,
    position   |-> b.position,
    visibleTo  |-> OrElseList(b.visibleTo, DefaultVisibleTo),
    createdAt  |-> now,
    updatedAt  |-> now ]

\* POST /api/annotations with headers (userId, userRole) and JSON body b.
CreateAnnotation(userId, userRole, b) ==
  LET req == [op |-> "create", userId |-> userId, userRole |-> userRole, body |-> b]
  IN
  IF ~checkPermission(userRole, {"admin", "default"})
  THEN /\ last' = req @@ [status |-> 403]
       /\ UNCHANGED <<viewVars, docVars, annotations, nextId, now, inflight, deletedOk>>
  ELSE IF ~IsValidObjectId(b.documentId)
  THEN /\ last' = req @@ [status |-> 500]
       /\ UNCHANGED <<viewVars, docVars, annotations, nextId, now, inflight, deletedOk>>
  ELSE /\ nextId <= MaxAnn
       /\ annotations' = Insert(annotations, nextId, NewAnnotation(userId, b))
       /\ nextId' = nextId + 1
       /\ last' = req @@ [status |-> 200,
                          annotation |-> [_id |-> nextId] @@ NewAnnotation(userId, b)]
       /\ UNCHANGED <<viewVars, docVars, now, inflight, deletedOk>>

\* ------------------------------------------------------------------- list
MatchesQuery_NoCreatorClause(a, documentId, userId, userRole) ==
  /\ a.documentId = documentId
  /\ IF userRole = "readonly"
     THEN userId \in Range(a.visibleTo)
     ELSE \/ userId \in Range(a.visibleTo)
          \/ Range(a.visibleTo) \cap {"A1", "D1", "D2", "R1"} # {}

MatchesQuery_NoReadonlyOverride(a, documentId, userId, userRole) ==
  /\ a.documentId = documentId
  /\ \/ userId \in Range(a.visibleTo)
     \/ a.createdBy = userId
     \/ Range(a.visibleTo) \cap {"A1", "D1", "D2", "R1"} # {}

\* MongoDB: {visibleTo: v} on an array field matches when the array holds v;
\* {visibleTo: {$in: S}} matches when the array holds a member of S.
MatchesQuery(a, documentId, userId, userRole) ==
  /\ a.documentId = documentId
  /\ IF userRole = "readonly"
     THEN userId \in Range(a.visibleTo)
     ELSE \/ userId \in Range(a.visibleTo)
          \/ a.createdBy = userId
          \/ Range(a.visibleTo) \cap AllVisible # {}

Matching(documentId, userId, userRole) ==
  { id \in DOMAIN annotations :
      MatchesQuery(annotations[id], documentId, userId, userRole) }

\* .sort({createdAt: -1}): any arrangement of the matches with createdAt
\* non-increasing (MongoDB leaves the order of equal keys open).
SortedDesc(ids) ==
  { s \in [1..Cardinality(ids) -> ids] :
      /\ \A i, j \in DOMAIN s : i # j => s[i] # s[j]
      /\ \A i \in DOMAIN s : i + 1 \in DOMAIN s =>
            annotations[s[i]].createdAt >= annotations[s[i + 1]].createdAt }

\* GET /api/annotations/:documentId
ListAnnotations(userId, userRole, documentId) ==
  LET req == [op |-> "list", userId |-> userId, userRole |-> userRole,
              documentId |-> documentId]
  IN
  /\ IF ~IsValidObjectId(documentId)
     THEN last' = req @@ [status |-> 500]
     ELSE \E s \in SortedDesc(Matching(documentId, userId, userRole)) :
            last' = req @@ [status |-> 200,
                            annotations |-> [i \in DOMAIN s |-> WithId(s[i])]]
  /\ UNCHANGED <<viewVars, docVars, annotations, nextId, now, inflight, deletedOk>>

\* ----------------------------------------------------------------- getOne
isVisible(annotation, userId) ==
  \/ userId \in Range(annotation.visibleTo)
  \/ "A1" \in Range(annotation.visibleTo)
  \/ "D1" \in Range(annotation.visibleTo)
  \/ "D2" \in Range(annotation.visibleTo)
  \/ "R1" \in Range(annotation.visibleTo)
  \/ annotation.createdBy = userId

\* GET /api/annotations/single/:id
GetAnnotation(userId, userRole, id) ==
  LET req == [op |-> "getOne", userId |-> userId, userRole |-> userRole, id |-> id]
  IN
  /\ IF ~IsValidObjectId(id)
     THEN last' = req @@ [status |-> 500]
     ELSE IF id \notin DOMAIN annotations
     THEN last' = req @@ [status |-> 404]
     ELSE IF ~isVisible(annotations[id], userId)
     THEN last' = req @@ [status |-> 403]
     ELSE last' = req @@ [status |-> 200, annotation |-> WithId(id)]
  /\ UNCHANGED <<viewVars, docVars, annotations, nextId, now, inflight, deletedOk>>

\* ------------------------------------------------------------------- edit
\* The object the PUT handler builds after its findOne.
Updated(annotation, body) ==
  [ annotation EXCEPT
      !.content   = OrElseString(body.content, annotation.content),
      !.visibleTo = OrElseList(body.visibleTo, annotation.visibleTo),
      !.updatedAt = now ]

MayMutate_AdminOnly(annotation, userId, userRole) == userRole = "admin"

MayMutate_NoCheck(annotation, userId, userRole) == TRUE

\* `if (!isOwner && !isAdmin) return 403` of the PUT and DELETE handlers.
MayMutate(annotation, userId, userRole) ==
  LET isOwner == annotation.createdBy = userId
      isAdmin == userRole = "admin"
  IN  ~(~isOwner /\ ~isAdmin)

\* PUT /api/annotations/:id up to its second await: findOne, the permission
\* check, and the object to write.  Of the handler's locals only the id and
\* `updated` are read after the await; the request body stays with them.
EditFind(userId, userRole, id, body) ==
  LET req == [op |-> "edit", userId |-> userId, userRole |-> userRole, id |-> id]
  IN
  IF ~IsValidObjectId(id)
  THEN /\ last' = req @@ [status |-> 500]
       /\ UNCHANGED <<viewVars, docVars, annotations, nextId, now, inflight, deletedOk>>
  ELSE IF id \notin DOMAIN annotations
  THEN /\ last' = req @@ [status |-> 404]
       /\ UNCHANGED <<viewVars, docVars, annotations, nextId, now, inflight, deletedOk>>
  ELSE IF ~MayMutate(annotations[id], userId, userRole)
  THEN /\ last' = req @@ [status |-> 403]
       /\ UNCHANGED <<viewVars, docVars, annotations, nextId, now, inflight, deletedOk>>
  ELSE /\ Cardinality(inflight) < MaxInflight
       /\ inflight' = inflight \cup
            { [op |-> "edit", id |-> id, body |-> body,
               updated |-> Updated(annotations[id], body)] }
       /\ UNCHANGED <<viewVars, docVars, annotations, nextId, now, deletedOk, last>>

UpdateOne_Upsert(coll, id, updated) == Insert(coll, id, updated)

UpdateOne_ReplaceOrInsert(coll, id, updated) ==
  [i \in DOMAIN coll \cup {id} |-> IF i = id THEN updated ELSE coll[i]]

\* updateOne({_id}, {$set: updated}): writes every field of `updated` when
\* the document is still there, matches nothing otherwise; then 200.
UpdateOne(coll, id, updated) ==
  IF id \in DOMAIN coll THEN [coll EXCEPT ![id] = updated] ELSE coll

EditUpdate(q) ==
  /\ q \in inflight /\ q.op = "edit"
  /\ annotations' = UpdateOne(annotations, q.id, q.updated)
  /\ inflight' = inflight \ {q}
  /\ last' = [op |-> "edit", id |-> q.id, status |-> 200,
              annotation |-> [_id |-> q.id] @@ q.updated]
  /\ UNCHANGED <<viewVars, docVars, nextId, now, deletedOk>>

\* ----------------------------------------------------------------- delete
DeleteFind_RemoveBeforeCheck(userId, userRole, id) ==
  LET req == [op |-> "delete", userId |-> userId, userRole |-> userRole, id |-> id]
  IN
  IF ~IsValidObjectId(id)
  THEN /\ last' = req @@ [status |-> 500]
       /\ UNCHANGED <<viewVars, docVars, annotations, nextId, now, inflight, deletedOk>>
  ELSE IF id \notin DOMAIN annotations
  THEN /\ last' = req @@ [status |-> 404]
       /\ UNCHANGED <<viewVars, docVars, annotations, nextId, now, inflight, deletedOk>>
  ELSE IF ~MayMutate(annotations[id], userId, userRole)
  THEN /\ last' = req @@ [status |-> 403]
       /\ annotations' = Remove(annotations, id)
       /\ UNCHANGED <<viewVars, docVars, nextId, now, inflight, deletedOk>>
  ELSE /\ Cardinality(inflight) < MaxInflight
       /\ inflight' = inflight \cup { [op |-> "delete", id |-> id] }
       /\ UNCHANGED <<viewVars, docVars, annotations, nextId, now, deletedOk, last>>

\* DELETE /api/annotations/:id up to its second await.
DeleteFind(userId, userRole, id) ==
  LET req == [op |-> "delete", userId |-> userId, userRole |-> userRole, id |-> id]
  IN
  IF ~IsValidObjectId(id)
  THEN /\ last' = req @@ [status |-> 500]
       /\ UNCHANGED <<viewVars, docVars, annotations, nextId, now, inflight, deletedOk>>
  ELSE IF id \notin DOMAIN annotations
  THEN /\ last' = req @@ [status |-> 404]
       /\ UNCHANGED <<viewVars, docVars, annotations, nextId, now, inflight, deletedOk>>
  ELSE IF ~MayMutate(annotations[id], userId, userRole)
  THEN /\ last' = req @@ [status |-> 403]
       /\ UNCHANGED <<viewVars, docVars, annotations, nextId, now, inflight, deletedOk>>
  ELSE /\ Cardinality(inflight) < MaxInflight
       /\ inflight' = inflight \cup { [op |-> "delete", id |-> id] }
       /\ UNCHANGED <<viewVars, docVars, annotations, nextId, now, deletedOk, last>>

\* deleteOne({_id}), then 200.
DeleteRemove(q) ==
  /\ q \in inflight /\ q.op = "delete"
  /\ annotations' = Remove(annotations, q.id)
  /\ inflight' = inflight \ {q}
  /\ deletedOk' = deletedOk \cup {q.id}
  /\ last' = [op |-> "delete", id |-> q.id, status |-> 200]
  /\ UNCHANGED <<viewVars, docVars, nextId, now>>

\* ------------------------------------------------------------------- tick
Tick ==
  /\ now < MaxTime
  /\ now' = now + 1
  /\ UNCHANGED <<viewVars, docVars, annotations, nextId, inflight, deletedOk, last>>

\* --------------------------------------------------------- document store
\* A file of a multipart request as multer hands it over: originalname,
\* buffer (a sequence of bytes), mimetype; size is the buffer's length.
File(name, bytes) ==
  [originalname |-> name, buffer |-> bytes, size |-> Len(bytes),
   mimetype |-> "application/pdf"]

RECURSIVE Chunks(_)
\* GridFS upload stream: the buffer cut into chunks of ChunkBytes bytes,
\* the last one shorter; an empty buffer has no chunk.
Chunks(bytes) ==
  IF Len(bytes) = 0 THEN <<>>
  ELSE IF Len(bytes) <= ChunkBytes THEN <<bytes>>
  ELSE <<SubSeq(bytes, 1, ChunkBytes)>> \o
       Chunks(SubSeq(bytes, ChunkBytes + 1, Len(bytes)))

RECURSIVE Join(_)
\* GridFS download stream: the chunks of the file in the order of n.
Join(chunks) ==
  IF Len(chunks) = 0 THEN <<>> ELSE Head(chunks) \o Join(Tail(chunks))

\* The fs.files document and fs.chunks of one finished upload stream.
StoredFile(file, userId) ==
  [filename |-> file.originalname, length |-> Len(file.buffer),
   chunks |-> Chunks(file.buffer), uploadedBy |-> userId]

DocId_OwnObjectId(streamId) == streamId + MaxDoc

\* `_id: uploadStream.id` of the metadata record.
DocId(streamId) == streamId

\* The metadata record the "finish" listener builds.
Doc(file, userId, streamId) ==
  [ _id        |-> DocId(streamId),
    filename   |-> file.originalname,
    uploadedBy |-> userId,
    uploadDate |-> now,
    size       |-> file.size,
    mimeType   |-> file.mimetype,
    gridFsId   |-> streamId ]

\* POST /api/documents/upload up to its first await.  reqFiles is None when
\* the request is not multipart (multer leaves req.files undefined and the
\* for-of throws), else Some(list of files).
UploadStart(userId, userRole, reqFiles) ==
  LET req == [op |-> "upload", userId |-> userId, userRole |-> userRole,
              files |-> reqFiles]
  IN
  IF ~checkPermission(userRole, {"admin"})
  THEN /\ last' = req @@ [status |-> 403]
       /\ UNCHANGED <<viewVars, docVars, annVars, now>>
  ELSE IF reqFiles = None
  THEN /\ last' = req @@ [status |-> 500]
       /\ UNCHANGED <<viewVars, docVars, annVars, now>>
  ELSE IF Len(reqFiles[1]) = 0
  THEN /\ last' = req @@ [status |-> 200, documents |-> <<>>]
       /\ UNCHANGED <<viewVars, docVars, annVars, now>>
  ELSE /\ Cardinality(uploads) < MaxUploads
       /\ nextBlob <= MaxDoc
       /\ uploads' = uploads \cup
            { [userId |-> userId, files |-> reqFiles[1], k |-> 1,
               id |-> nextBlob, docs |-> <<>>, pc |-> "write"] }
       /\ nextBlob' = nextBlob + 1
       /\ UNCHANGED <<documents, blobs, uploadedOk, viewVars, annVars, now, last>>

\* The upload stream of the current file finishes: the file is in the
\* bucket, and the "finish" listener has built the metadata record and
\* awaits its insertOne.
UploadFinish(u) ==
  /\ u \in uploads /\ u.pc = "write"
  /\ blobs' = Insert(blobs, u.id, StoredFile(u.files[u.k], u.userId))
  /\ uploads' = (uploads \ {u}) \cup
       { [u EXCEPT !.pc = "insert",
                   !.docs = Append(u.docs, Doc(u.files[u.k], u.userId, u.id))] }
  /\ UNCHANGED <<documents, nextBlob, uploadedOk, viewVars, annVars, now, last>>

\* The upload stream emits "error": reject, the catch block answers 500.
UploadError(u) ==
  /\ u \in uploads /\ u.pc = "write"
  /\ uploads' = uploads \ {u}
  /\ last' = [op |-> "upload", userId |-> u.userId, userRole |-> "admin",
              files |-> Some(u.files), status |-> 500]
  /\ UNCHANGED <<documents, blobs, nextBlob, uploadedOk, viewVars, annVars, now>>

\* insertOne of the metadata record succeeds: documents.push(doc),
\* resolve(); the loop opens the upload stream of the next file, or the
\* handler answers 200 with the records.
UploadInsert(u) ==
  /\ u \in uploads /\ u.pc = "insert"
  /\ documents' = Insert(documents, u.docs[u.k]._id, u.docs[u.k])
  /\ IF u.k < Len(u.files)
     THEN /\ nextBlob <= MaxDoc
          /\ uploads' = (uploads \ {u}) \cup
               { [u EXCEPT !.k = u.k + 1, !.id = nextBlob, !.pc = "write"] }
          /\ nextBlob' = nextBlob + 1
          /\ UNCHANGED <<last, uploadedOk>>
     ELSE /\ uploads' = uploads \ {u}
          /\ last' = [op |-> "upload", userId |-> u.userId, userRole |-> "admin",
                      files |-> Some(u.files), status |-> 200, documents |-> u.docs]
          /\ uploadedOk' = uploadedOk \cup
               { <<u.docs[i]._id, u.files[i].buffer>> : i \in DOMAIN u.docs }
          /\ UNCHANGED nextBlob
  /\ UNCHANGED <<blobs, viewVars, annVars, now>>

\* insertOne rejects inside the async "finish" listener: neither resolve
\* nor reject is called, the awaited promise never settles and the handler
\* stays suspended.
UploadInsertFail(u) ==
  /\ u \in uploads /\ u.pc = "insert"
  /\ uploads' = (uploads \ {u}) \cup { [u EXCEPT !.pc = "hung"] }
  /\ UNCHANGED <<documents, blobs, nextBlob, uploadedOk, viewVars, annVars, now, last>>

\* GET /api/documents
ListDocuments ==
  /\ last' = [op |-> "listDocs", status |-> 200,
              documents |-> { documents[i] : i \in DOMAIN documents }]
  /\ UNCHANGED <<viewVars, docVars, annVars, now>>

\* GET /api/documents/:id
FetchDocument(id) ==
  LET req == [op |-> "fetch", id |-> id]
  IN
  /\ IF ~IsValidObjectId(id)
     THEN last' = req @@ [status |-> 500]
     ELSE IF id \notin DOMAIN blobs
     THEN last' = req @@ [status |-> 404]
     ELSE last' = req @@ [status |-> 200, bytes |-> Join(blobs[id].chunks)]
  /\ UNCHANGED <<viewVars, docVars, annVars, now>>

\* ------------------------------------------------------------- the viewer
\* The browser client: App holds currentUser and selectedDoc and mounts
\* PDFViewer while a document is selected.

\* The request fetchAnnotations sends: user and document are those of the
\* render whose closure runs it.
FetchRequest(user, documentId) ==
  [userId |-> user.id, userRole |-> user.role, documentId |-> documentId]

\* The request the three create handlers send; live is FALSE once the
\* viewer that sent it is unmounted.
PostRequest(user, documentId, type) ==
  [userId |-> user.id, userRole |-> user.role, documentId |-> documentId,
   type |-> type, live |-> TRUE]

\* JSON body of a create request (a highlight carries no content).
PostBody(p) ==
  [ documentId |-> p.documentId,
    type       |-> p.type,
    content    |-> IF p.type = "comment" THEN "note"
                   ELSE IF p.type = "drawing" THEN "" ELSE None,
    position   |-> p.type,
    visibleTo  |-> Some(InitialViewer.visibleTo) ]

\* UserSwitcher.handleUserSelection -> setCurrentUser.  With the viewer
\* mounted and the id changed, its effect on [documentId, currentUser.id]
\* runs: fetchAnnotations, setTempPosition(null), setSelectedText(null).
\* (The select cannot be opened in the middle of a stroke: leaving the
\* canvas ends the stroke.)
setCurrentUser(user) ==
  /\ ~viewer.isDrawing
  /\ currentUser' = user
  /\ IF selectedDoc # None /\ user.id # currentUser.id
     THEN /\ Cardinality(fetches) < MaxFetches
          /\ fetches' = fetches \cup {FetchRequest(user, selectedDoc[1])}
          /\ viewer' = [viewer EXCEPT !.tempPosition = None,
                                      !.selectedText = None, !.error = ""]
     ELSE UNCHANGED <<fetches, viewer>>
  /\ UNCHANGED <<selectedDoc, posts, docVars, annVars, now, last>>

\* DocumentList.onSelectDoc -> setSelectedDoc(id): the list page is
\* replaced by a freshly mounted PDFViewer, whose effect fetches.
setSelectedDoc(documentId) ==
  /\ selectedDoc = None
  /\ selectedDoc' = Some(documentId)
  /\ viewer' = InitialViewer
  /\ Cardinality(fetches) < MaxFetches
  /\ fetches' = fetches \cup {FetchRequest(currentUser, documentId)}
  /\ UNCHANGED <<currentUser, posts, docVars, annVars, now, last>>

\* "Back to Documents" -> setSelectedDoc(null): the viewer is unmounted and
\* its state discarded; what its requests still under way set afterwards
\* reaches no mounted component.
backToDocuments ==
  /\ selectedDoc # None
  /\ selectedDoc' = None
  /\ viewer' = InitialViewer
  /\ fetches' = {}
  /\ posts' = { [p EXCEPT !.live = FALSE] : p \in posts }
  /\ UNCHANGED <<currentUser, docVars, annVars, now, last>>

\* fetchAnnotations from its await on: the server answers the list query
\* for the request's user and document and the continuation runs
\* setAnnotations(data.annotations) whoever is selected by then.
fetchAnnotationsDone(f) ==
  /\ f \in fetches
  /\ fetches' = fetches \ {f}
  /\ \E s \in SortedDesc(Matching(f.documentId, f.userId, f.userRole)) :
        viewer' = [viewer EXCEPT !.annotations = s]
  /\ UNCHANGED <<currentUser, selectedDoc, posts, docVars, annVars, now, last>>

\* "Draw" / "Exit Draw" button.  (Reaching the button takes the pointer
\* off the canvas, which ends a stroke.)
toggleDrawingMode ==
  /\ selectedDoc # None /\ ~viewer.isDrawing
  /\ viewer' = [viewer EXCEPT !.drawingMode = ~viewer.drawingMode]
  /\ UNCHANGED <<currentUser, selectedDoc, fetches, posts, docVars, annVars, now, last>>

\* "Comment" / "Highlight" buttons.
setAnnotationMode(mode) ==
  /\ selectedDoc # None
  /\ viewer' = [viewer EXCEPT !.annotationMode = mode]
  /\ UNCHANGED <<currentUser, selectedDoc, fetches, posts, docVars, annVars, now, last>>

\* A click on a page.
handlePdfClick ==
  /\ selectedDoc # None
  /\ IF currentUser.role = "readonly" \/ viewer.drawingMode
        \/ viewer.annotationMode # "comment"
     THEN UNCHANGED viewer
     ELSE viewer' = [viewer EXCEPT
            !.tempPosition = Some(1),
            !.newAnnotation = IF viewer.selectedText # None
                              THEN viewer.selectedText[1] ELSE ""]
  /\ UNCHANGED <<currentUser, selectedDoc, fetches, posts, docVars, annVars, now, last>>

\* mouseup over the pages: found says whether the browser's selection is
\* a non-empty range inside a page's text layer.
handleTextSelection(found) ==
  /\ selectedDoc # None
  /\ viewer' = [viewer EXCEPT
       !.selectedText = IF found THEN Some("text") ELSE None]
  /\ UNCHANGED <<currentUser, selectedDoc, fetches, posts, docVars, annVars, now, last>>

\* The comment popup is rendered.
CommentPopupShown ==
  /\ viewer.tempPosition # None
  /\ ~viewer.drawingMode /\ viewer.annotationMode = "comment"

\* The manual comment input is rendered.
ManualInputShown ==
  currentUser.role # "readonly" /\ viewer.annotationMode = "comment"

\* The highlight popup is rendered.
HighlightPopupShown ==
  /\ viewer.selectedText # None
  /\ ~viewer.drawingMode /\ viewer.annotationMode = "highlight"

\* Typing into either comment textarea: setNewAnnotation(e.target.value).
setNewAnnotation(text) ==
  /\ selectedDoc # None
  /\ CommentPopupShown \/ ManualInputShown
  /\ viewer' = [viewer EXCEPT !.newAnnotation = text]
  /\ UNCHANGED <<currentUser, selectedDoc, fetches, posts, docVars, annVars, now, last>>

\* handleAddAnnotationWithPosition up to its await, run by the closure of
\* a render in which tempPosition had the value position.
handleAddAnnotationWithPosition(position) ==
  IF viewer.newAnnotation = "" \/ position = None
  THEN UNCHANGED <<fetches, posts>>
  ELSE /\ Cardinality(posts) < MaxPosts
       /\ posts' = posts \cup {PostRequest(currentUser, selectedDoc[1], "comment")}
       /\ UNCHANGED fetches

\* Save button of the comment popup.
saveCommentPopup ==
  /\ selectedDoc # None
  /\ CommentPopupShown
  /\ handleAddAnnotationWithPosition(viewer.tempPosition)
  /\ UNCHANGED <<viewer, currentUser, selectedDoc, docVars, annVars, now, last>>

\* "Add Comment" button of the manual input: setTempPosition({page: 1, ...})
\* and then the handler of the current render, which still sees the
\* tempPosition of before.
saveManualComment ==
  /\ selectedDoc # None
  /\ ManualInputShown
  /\ handleAddAnnotationWithPosition(viewer.tempPosition)
  /\ viewer' = [viewer EXCEPT !.tempPosition = Some(1)]
  /\ UNCHANGED <<currentUser, selectedDoc, docVars, annVars, now, last>>

\* X button of the comment popup.
cancelCommentPopup ==
  /\ selectedDoc # None
  /\ CommentPopupShown
  /\ viewer' = [viewer EXCEPT !.tempPosition = None, !.newAnnotation = "",
                              !.selectedText = None]
  /\ UNCHANGED <<currentUser, selectedDoc, fetches, posts, docVars, annVars, now, last>>

\* Save button of the highlight popup: handleAddHighlight up to its await.
handleAddHighlight ==
  /\ selectedDoc # None
  /\ HighlightPopupShown
  /\ Cardinality(posts) < MaxPosts
  /\ posts' = posts \cup {PostRequest(currentUser, selectedDoc[1], "highlight")}
  /\ UNCHANGED <<viewer, fetches, currentUser, selectedDoc, docVars, annVars, now, last>>

\* X button of the highlight popup.
cancelHighlightPopup ==
  /\ selectedDoc # None
  /\ HighlightPopupShown
  /\ viewer' = [viewer EXCEPT !.selectedText = None, !.newAnnotation = ""]
  /\ UNCHANGED <<currentUser, selectedDoc, fetches, posts, docVars, annVars, now, last>>

\* mousedown on the canvas, which takes pointer events in drawing mode only.
startDrawing ==
  /\ selectedDoc # None
  /\ viewer.drawingMode
  /\ IF currentUser.role = "readonly"
     THEN UNCHANGED viewer
     ELSE viewer' = [viewer EXCEPT !.isDrawing = TRUE]
  /\ UNCHANGED <<currentUser, selectedDoc, fetches, posts, docVars, annVars, now, last>>

\* mouseup on or mouseleave from the canvas: stopDrawing up to its await.
stopDrawing ==
  /\ selectedDoc # None
  /\ viewer.isDrawing
  /\ viewer' = [viewer EXCEPT !.isDrawing = FALSE]
  /\ Cardinality(posts) < MaxPosts
  /\ posts' = posts \cup {PostRequest(currentUser, selectedDoc[1], "drawing")}
  /\ UNCHANGED <<fetches, currentUser, selectedDoc, docVars, annVars, now, last>>

\* A create request of the viewer from its await on: the server handles
\* POST /api/annotations (403 unless the role is admin or default, else
\* insertOne), and the continuation of the handler that sent it runs.  A
\* comment or highlight answered ok clears the input and fetches; a refusal
\* sets the error; stopDrawing does not look at the response and fetches.
\* The fetch is the closure's: for the user and document of the request.
createAnnotationDone(p) ==
  LET ok == checkPermission(p.userRole, {"admin", "default"})
      refetch == fetches \cup
                   {[userId |-> p.userId, userRole |-> p.userRole,
                     documentId |-> p.documentId]}
  IN
  /\ p \in posts
  /\ posts' = posts \ {p}
  /\ IF ok
     THEN /\ nextId <= MaxAnn
          /\ annotations' = Insert(annotations, nextId,
                                   NewAnnotation(p.userId, PostBody(p)))
          /\ nextId' = nextId + 1
     ELSE UNCHANGED <<annotations, nextId>>
  /\ IF ~p.live
     THEN UNCHANGED <<viewer, fetches>>
     ELSE IF p.type = "drawing"
     THEN /\ Cardinality(fetches) < MaxFetches
          /\ fetches' = refetch
          /\ viewer' = [viewer EXCEPT !.error = ""]
     ELSE IF ok
     THEN /\ Cardinality(fetches) < MaxFetches
          /\ fetches' = refetch
          /\ viewer' = [viewer EXCEPT
               !.error = "",
               !.newAnnotation = "",
               !.selectedText = None,
               !.tempPosition = IF p.type = "comment" THEN None
                                ELSE viewer.tempPosition]
     ELSE /\ viewer' = [viewer EXCEPT
               !.error = IF p.type = "comment" THEN "Failed to add annotation"
                         ELSE "Failed to add highlight"]
          /\ UNCHANGED fetches
  /\ UNCHANGED <<currentUser, selectedDoc, docVars, inflight, deletedOk, now, last>>

\* ------------------------------------------------- read-path specification
\* Create requests that populate the store for the read paths: the creator
\* in the visibility list, only other users in it, nobody in it, and the
\* default list.
Body(p, d, v) == p @@ [documentId |-> d, visibleTo |-> v]

ReadCreates ==
  { <<"D1", Body(Comment, d, Some(<<"D1">>))>> : d \in DocIds } \cup
  { <<"D1", Body(Comment, 1, None)>>,
    <<"D1", Body(Comment, 1, Some(<<"R1">>))>>,
    <<"D1", Body(Comment, 1, Some(<<"X9">>))>>,
    <<"X9", Body(Drawing, 1, Some(<<>>))>>,
    <<"D1", Body(Comment, BadId, None)>> }

\* Callers of the read routes: every user id, each role with a user id
\* that is a known token and one that is not.
ReadCallers ==
  { <<"A1", "admin">>,   <<"A1", "readonly">>,
    <<"D1", "default">>, <<"D1", "readonly">>,
    <<"D2", "default">>,
    <<"R1", "default">>, <<"R1", "readonly">>,
    <<"X9", "default">>, <<"X9", "readonly">>, <<"X9", "guest">> }

CreateStep == \E c \in ReadCreates, r \in Roles : CreateAnnotation(c[1], r, c[2])
ListStep   == \E c \in ReadCallers, d \in DocParam : ListAnnotations(c[1], c[2], d)
GetStep    == \E c \in ReadCallers, id \in AnnParam : GetAnnotation(c[1], c[2], id)

NextRead == CreateStep \/ ListStep \/ GetStep

SpecRead == Init /\ [][NextRead]_vars

\* ---------------------------------------------- lifecycle specification
\* create -> edit* -> delete of annotations, with requests interleaving at
\* the awaits.
Callers     == { <<"A1", "default">>, <<"D1", "default">> }
Readers     == { <<"X9", "default">> }
EditBodies  == { [content |-> Some("new"), visibleTo |-> None],
                 [content |-> None,        visibleTo |-> Some(<<"R1">>)] }
EditParam   == {BadId} \cup 1..MaxEdited

LifeCreate == /\ nextId <= MaxEdited
              /\ CreateAnnotation("D1", "default", Body(Comment, 1, None))
LifeEditFind   == \E c \in Callers, id \in EditParam, b \in EditBodies :
                     EditFind(c[1], c[2], id, b)
LifeEditUpdate == \E q \in inflight : EditUpdate(q)
LifeDeleteFind == \E c \in Callers, id \in EditParam : DeleteFind(c[1], c[2], id)
LifeDeleteRemove == \E q \in inflight : DeleteRemove(q)
LifeGet  == \E c \in Readers, id \in EditParam : GetAnnotation(c[1], c[2], id)
LifeList == \E c \in Readers : ListAnnotations(c[1], c[2], 1)

Next ==
  \/ LifeCreate
  \/ LifeEditFind
  \/ LifeEditUpdate
  \/ LifeDeleteFind
  \/ LifeDeleteRemove
  \/ LifeGet
  \/ LifeList

Spec == Init /\ [][Next]_vars

\* The lifecycle with the clock advancing between steps.
NextTimed == Next \/ Tick

SpecTimed == Init /\ [][NextTimed]_vars

\* ------------------------------------------ authorization specification
\* Edit and delete requests on annotations of two owners, by callers that
\* are owner or not and admin or not, in every combination.
AuthCallers == { <<u, r>> : u \in {"A1", "D1", "X9"}, r \in {"admin", "default"} }
                 \cup { <<"D1", "readonly">>, <<"A1", "guest">> }
AuthBodies  == { [content |-> Some("new"), visibleTo |-> None] }

AuthCreate == /\ nextId <= MaxEdited
              /\ \E u \in {"D1", "X9"} :
                    CreateAnnotation(u, "default", Body(Comment, 1, None))
AuthEditFind   == \E c \in AuthCallers, id \in EditParam, b \in AuthBodies :
                     EditFind(c[1], c[2], id, b)
AuthDeleteFind == \E c \in AuthCallers, id \in EditParam : DeleteFind(c[1], c[2], id)

NextAuth ==
  \/ AuthCreate
  \/ AuthEditFind
  \/ LifeEditUpdate
  \/ AuthDeleteFind
  \/ LifeDeleteRemove

SpecAuth == Init /\ [][NextAuth]_vars

\* ------------------------------------------ document store specification
\* Uploads of zero, one and two files by admins and by others, each storage
\* operation succeeding or failing, with document list, fetch and annotation
\* create requests in between.
FileA == File("a.pdf", <<1, 2, 3>>)
FileB == File("b.pdf", <<>>)

UploadBodies  == { None, Some(<<>>), Some(<<FileA>>), Some(<<FileB, FileA>>) }
UploadCallers == { <<"A1", "admin">>, <<"D1", "default">>,
                   <<"R1", "readonly">>, <<"X9", "guest">> }

DocUpload == \E c \in UploadCallers, f \in UploadBodies : UploadStart(c[1], c[2], f)
DocFinish == \E u \in uploads : UploadFinish(u)
DocError  == \E u \in uploads : UploadError(u)
DocInsert == \E u \in uploads : UploadInsert(u)
DocInsertFail == \E u \in uploads : UploadInsertFail(u)
DocFetch  == \E id \in DocParam \cup DOMAIN documents : FetchDocument(id)
DocCreate == /\ nextId <= MaxEdited
             /\ \E d \in DocIds :
                   CreateAnnotation("D1", "default", Body(Comment, d, None))

NextDocs ==
  \/ DocUpload
  \/ DocFinish
  \/ DocError
  \/ DocInsert
  \/ DocInsertFail
  \/ ListDocuments
  \/ DocFetch
  \/ DocCreate

SpecDocs == Init /\ [][NextDocs]_vars

\* ------------------------------------------------ ordering specification
\* Annotations of one document created at the same and at different
\* instants, edited by their owner and listed by their owner.
OrderCreate   == CreateAnnotation("D1", "default", Body(Comment, 1, None))
OrderList     == ListAnnotations("D1", "default", 1)
OrderEditFind == \E id \in AnnIds :
                    EditFind("D1", "default", id,
                             [content |-> Some("new"), visibleTo |-> None])

NextOrder ==
  \/ OrderCreate
  \/ OrderList
  \/ OrderEditFind
  \/ LifeEditUpdate
  \/ Tick

SpecOrder == Init /\ [][NextOrder]_vars

\* --------------------------------------------- empty-value specification
\* The owner's edits that supply empty values and one that supplies a
\* content, interleaving with each other and with the owner's delete.
EmptyBodies == { [content |-> Some(""),    visibleTo |-> Some(<<>>)],
                 [content |-> Some(""),    visibleTo |-> None],
                 [content |-> Some("new"), visibleTo |-> None] }

EmptyEditFind   == \E id \in EditParam, b \in EmptyBodies :
                      EditFind("D1", "default", id, b)
EmptyDeleteFind == \E id \in EditParam : DeleteFind("D1", "default", id)

NextEmpty ==
  \/ LifeCreate
  \/ EmptyEditFind
  \/ LifeEditUpdate
  \/ EmptyDeleteFind
  \/ LifeDeleteRemove

SpecEmpty == Init /\ [][NextEmpty]_vars

\* ------------------------------------------- known-users specification
\* Every caller is one of the four users of the viewer's user switcher,
\* with the role the switcher gives it.
KnownUsers == { <<"A1", "admin">>, <<"D1", "default">>,
                <<"D2", "default">>, <<"R1", "readonly">> }

KnownCreate == /\ nextId <= MaxEdited
               /\ \E c \in KnownUsers :
                    CreateAnnotation(c[1], c[2], Body(Comment, 1, Some(<<"R1">>)))
KnownEditFind   == \E c \in KnownUsers, id \in EditParam, b \in AuthBodies :
                      EditFind(c[1], c[2], id, b)
KnownDeleteFind == \E c \in KnownUsers, id \in EditParam :
                      DeleteFind(c[1], c[2], id)
\* (an upload that is accepted is the first one)
KnownUpload     == /\ \E c \in KnownUsers : UploadStart(c[1], c[2], Some(<<FileB>>))
                   /\ uploads' # uploads => (uploads = {} /\ DOMAIN blobs = {})

NextKnown ==
  \/ KnownCreate
  \/ KnownEditFind
  \/ LifeEditUpdate
  \/ KnownDeleteFind
  \/ LifeDeleteRemove
  \/ KnownUpload
  \/ DocFinish
  \/ DocInsert

SpecKnown == Init /\ [][NextKnown]_vars

\* ---------------------------------------------------- viewer specification
\* Another client stores annotations that only D1 and the admin may see
\* while the list page is shown; then documents are opened and closed and
\* the user is switched while fetches are under way.
ViewUsers == { [id |-> "A1", role |-> "admin"],
               [id |-> "D1", role |-> "default"],
               [id |-> "R1", role |-> "readonly"] }

ViewSeed == /\ selectedDoc = None
            /\ \E d \in DocIds :
                 CreateAnnotation("D1", "default", Body(Comment, d, Some(<<"D1">>)))
ViewSelectUser == \E u \in ViewUsers : setCurrentUser(u)
ViewSelectDoc  == \E d \in DocIds : setSelectedDoc(d)
ViewFetchDone  == \E f \in fetches : fetchAnnotationsDone(f)

NextView ==
  \/ ViewSeed
  \/ ViewSelectUser
  \/ ViewSelectDoc
  \/ backToDocuments
  \/ ViewFetchDone

SpecView == Init /\ [][NextView]_vars

\* --------------------------------------------------- gesture specification
\* One document is open; a default and a read-only user take turns and
\* every control of the viewer is used.
GestureUsers == { [id |-> "D1", role |-> "default"],
                  [id |-> "R1", role |-> "readonly"] }

GestureSelectUser == \E u \in GestureUsers : setCurrentUser(u)
GestureSelectDoc  == setSelectedDoc(1)
GestureMode       == \E m \in {"comment", "highlight"} : setAnnotationMode(m)
GestureSelection  == \E found \in BOOLEAN : handleTextSelection(found)
GestureType       == setNewAnnotation("note")
GesturePostDone   == \E p \in posts : createAnnotationDone(p)

NextGesture ==
  \/ GestureSelectUser
  \/ GestureSelectDoc
  \/ backToDocuments
  \/ toggleDrawingMode
  \/ GestureMode
  \/ handlePdfClick
  \/ GestureSelection
  \/ GestureType
  \/ saveCommentPopup
  \/ saveManualComment
  \/ cancelCommentPopup
  \/ handleAddHighlight
  \/ cancelHighlightPopup
  \/ startDrawing
  \/ stopDrawing
  \/ GesturePostDone
  \/ ViewFetchDone

SpecGesture == Init /\ [][NextGesture]_vars

\* ------------------------------------------------------------ properties
ListedIds == { last.annotations[i]._id : i \in DOMAIN last.annotations }

IsList200 == last.op = "list" /\ last.status = 200

\* C2: a create request whose role is readonly is answered 403, whatever
\* its caller id and body, and it leaves the collection as it was.
C2_ReadonlyCreateDenied ==
  [][ ( /\ last'.op = "create" /\ last'.userRole = "readonly"
        /\ \E c \in ReadCreates : CreateAnnotation(c[1], "readonly", c[2]) )
        => (last'.status = 403 /\ annotations' = annotations /\ nextId' = nextId) ]_vars

C2_Witness ==
  /\ last.op = "create" /\ last.userRole = "readonly" /\ last.status = 403
  /\ IsValidObjectId(last.body.documentId)
  /\ nextId <= MaxAnn

\* C3: an annotation created by D1 with visibleTo = ["D1"] is listed neither
\* to caller D2 with role default nor to caller A1 with role admin.
C3_PrivateToD1Hidden ==
  (IsList200 /\ (\/ (last.userId = "D2" /\ last.userRole = "default")
                 \/ (last.userId = "A1" /\ last.userRole = "admin")))
    => \A i \in DOMAIN last.annotations :
          ~(/\ last.annotations[i].createdBy = "D1"
            /\ last.annotations[i].visibleTo = <<"D1">>)

\* C4: for a caller whose role is not readonly, a list of a document returns
\* exactly the stored annotations of that document whose visibleTo holds the
\* caller id, or that the caller created, or whose visibleTo meets
\* {A1, D1, D2, R1}; each is returned as stored and once.
C4_ListFilter ==
  (last.op = "list" /\ last.userRole # "readonly" /\ IsValidObjectId(last.documentId))
    => /\ last.status = 200
       /\ ListedIds =
            { id \in DOMAIN annotations :
                /\ annotations[id].documentId = last.documentId
                /\ \/ last.userId \in Range(annotations[id].visibleTo)
                   \/ annotations[id].createdBy = last.userId
                   \/ Range(annotations[id].visibleTo) \cap {"A1", "D1", "D2", "R1"} # {} }
       /\ Len(last.annotations) = Cardinality(ListedIds)
       /\ \A i \in DOMAIN last.annotations :
             last.annotations[i] = WithId(last.annotations[i]._id)

\* the listed set is not empty and leaves out an annotation of the document
\* (the caller is not in its visibleTo, did not create it, and it names no
\* known token).
C4_Witness ==
  /\ IsList200 /\ last.userRole # "readonly"
  /\ ListedIds # {}
  /\ \E id \in DOMAIN annotations \ ListedIds :
        annotations[id].documentId = last.documentId

\* C5: for a readonly caller U, a list of a document returns exactly the
\* stored annotations of that document whose visibleTo holds U.
C5_ReadonlyList ==
  (last.op = "list" /\ last.userRole = "readonly" /\ IsValidObjectId(last.documentId))
    => /\ last.status = 200
       /\ ListedIds =
            { id \in DOMAIN annotations :
                /\ annotations[id].documentId = last.documentId
                /\ last.userId \in Range(annotations[id].visibleTo) }

\* a readonly caller is not shown an annotation of the document that it
\* created itself and whose visibleTo holds a known token but not the caller.
C5_Witness ==
  /\ IsList200 /\ last.userRole = "readonly"
  /\ \E id \in DOMAIN annotations \ ListedIds :
        /\ annotations[id].documentId = last.documentId
        /\ annotations[id].createdBy = last.userId
        /\ Range(annotations[id].visibleTo) \cap AllVisible # {}

\* C6: getOne answers 404 when no annotation with the id is stored;
\* otherwise 200 when visibleTo holds the caller id or a token of
\* {A1, D1, D2, R1} or the caller created it, and 403 in every other case.
C6_GetOneOutcome ==
  last.op = "getOne" =>
    IF last.id \notin DOMAIN annotations
    THEN last.status = 404
    ELSE IF \/ last.userId \in Range(annotations[last.id].visibleTo)
            \/ Range(annotations[last.id].visibleTo) \cap {"A1", "D1", "D2", "R1"} # {}
            \/ annotations[last.id].createdBy = last.userId
         THEN last.status = 200
         ELSE last.status = 403

\* C7: a successful create without visibleTo stores ["A1","D1","D2"]; one
\* that supplies visibleTo stores the supplied list.
C7_StoredVisibleTo ==
  (last.op = "create" /\ last.status = 200)
    => /\ last.annotation._id \in DOMAIN annotations
       /\ annotations[last.annotation._id].visibleTo =
            IF last.body.visibleTo = None
            THEN <<"A1", "D1", "D2">>
            ELSE last.body.visibleTo[1]

C7_Witness ==
  /\ last.op = "create" /\ last.status = 200 /\ last.body.visibleTo = None
  /\ \E id \in DOMAIN annotations :
        id # last.annotation._id /\ annotations[id].visibleTo = <<"X9">>

\* C8: every annotation a successful create produces has a non-empty
\* visibleTo.
C8_VisibleToNonEmpty ==
  (last.op = "create" /\ last.status = 200)
    => Len(annotations[last.annotation._id].visibleTo) > 0

\* The handler passed its permission check: it is suspended at its write
\* and has sent no response.
Accepted(op, id) ==
  /\ \E q \in inflight' \ inflight : q.op = op /\ q.id = id
  /\ Cardinality(inflight') = Cardinality(inflight) + 1
  /\ annotations' = annotations
  /\ last' = last

\* The handler answered 403 and will not write.
Refused ==
  /\ last'.status = 403
  /\ inflight' = inflight
  /\ annotations' = annotations

C9_DeletedStaysGone ==
  /\ (last.op = "getOne" /\ last.id \in deletedOk) => last.status = 404
  /\ IsList200 => ListedIds \cap deletedOk = {}

\* getOne of a deleted id answers 404 while an edit of that id, which read
\* the annotation before the delete, is still in flight.
C9_Witness ==
  /\ last.op = "getOne" /\ last.status = 404 /\ last.id \in deletedOk
  /\ \E q \in inflight : q.op = "edit" /\ q.id = last.id

SameIdentity(a, b) ==
  /\ a.type = b.type /\ a.position = b.position /\ a.createdBy = b.createdBy
  /\ a.documentId = b.documentId /\ a.createdAt = b.createdAt

\* C10: the write of an edit that supplies only content leaves visibleTo,
\* type, position, createdBy, documentId and createdAt of the stored
\* annotation as they were, and no step changes type, position, createdBy,
\* documentId or createdAt of a stored annotation.
C10_EditFrame ==
  [][ /\ \A q \in inflight :
           ( /\ q.op = "edit" /\ EditUpdate(q)
             /\ q.body.content # None /\ q.body.visibleTo = None
             /\ q.id \in DOMAIN annotations )
           => /\ annotations'[q.id].visibleTo = annotations[q.id].visibleTo
              /\ SameIdentity(annotations'[q.id], annotations[q.id])
      /\ \A id \in DOMAIN annotations \cap DOMAIN annotations' :
           SameIdentity(annotations'[id], annotations[id]) ]_vars

\* C11: createdAt of a stored annotation never changes; updatedAt changes
\* only in the write of an edit; and the write of every edit leaves
\* updatedAt strictly greater than it was before that write.
C11_Timestamps ==
  [][ /\ \A id \in DOMAIN annotations \cap DOMAIN annotations' :
           /\ annotations'[id].createdAt = annotations[id].createdAt
           /\ annotations'[id].updatedAt # annotations[id].updatedAt
                => \E q \in inflight : q.op = "edit" /\ q.id = id /\ EditUpdate(q)
      /\ \A q \in inflight :
           (q.op = "edit" /\ EditUpdate(q) /\ q.id \in DOMAIN annotations)
             => annotations'[q.id].updatedAt > annotations[q.id].updatedAt ]_vars

\* C12: the write of an edit that supplies an empty content string leaves
\* the stored content as it was, and the write of an edit that supplies an
\* empty visibleTo list leaves the stored visibleTo as it was.
C12_EmptyKeepsOld ==
  [][ \A q \in inflight :
        (q.op = "edit" /\ EditUpdate(q) /\ q.id \in DOMAIN annotations)
          => /\ q.body.content = Some("")
                  => annotations'[q.id].content = annotations[q.id].content
             /\ q.body.visibleTo = Some(<<>>)
                  => annotations'[q.id].visibleTo = annotations[q.id].visibleTo ]_vars

\* C12 (amended): an edit that supplies an empty content string writes and
\* returns the content it read from the store; an edit that supplies an
\* empty visibleTo list writes and returns the empty list.
C12_EmptyContentKept ==
  [][ /\ \A id \in DOMAIN annotations, b \in EmptyBodies :
           EditFind("D1", "default", id, b)
             => \A q \in inflight' \ inflight :
                  /\ b.content = Some("")
                       => q.updated.content = annotations[id].content
                  /\ b.visibleTo = Some(<<>>) => q.updated.visibleTo = <<>>
      /\ \A q \in inflight :
           (q.op = "edit" /\ EditUpdate(q))
             => /\ last'.annotation.content = q.updated.content
                /\ last'.annotation.visibleTo = q.updated.visibleTo
                /\ q.id \in DOMAIN annotations
                     => /\ annotations'[q.id].content = q.updated.content
                        /\ annotations'[q.id].visibleTo = q.updated.visibleTo ]_vars

\* an edit with empty content and empty visibleTo has answered 200: the
\* stored annotation has its old content and an empty visibleTo.
C12_Witness ==
  /\ last.op = "edit" /\ last.status = 200
  /\ last.id \in DOMAIN annotations
  /\ last.annotation.visibleTo = <<>> /\ last.annotation.content = "note"
  /\ annotations[last.id].visibleTo = <<>> /\ annotations[last.id].content = "note"

\* C13: an upload request by a caller whose role is not admin is answered
\* 403; it stores no blob and no document record and starts no upload.
\* (The first step of an upload request sends an answer or opens an upload
\* stream.)
C13_UploadAdminOnly ==
  [][ ((last' # last /\ last'.op = "upload") \/ nextBlob' # nextBlob)
        => \A c \in UploadCallers, f \in UploadBodies :
             (c[2] # "admin" /\ UploadStart(c[1], c[2], f))
               => /\ last'.op = "upload" /\ last'.status = 403
                  /\ blobs' = blobs /\ documents' = documents
                  /\ uploads' = uploads /\ nextBlob' = nextBlob ]_vars

\* a caller with role default is refused an upload of one file that an
\* admin's request would have started.
C13_Witness ==
  /\ last.op = "upload" /\ last.status = 403 /\ last.userRole = "default"
  /\ last.files = Some(<<FileA>>)
  /\ Cardinality(uploads) < MaxUploads /\ nextBlob <= MaxDoc
  /\ DOMAIN documents # {}

\* C14: after an admin's upload of a file with bytes B has answered 200,
\* a fetch of the document id the response returned for that file answers
\* 200 with bytes equal to B.
C14_RoundTrip ==
  last.op = "fetch" =>
    \A p \in uploadedOk :
      p[1] = last.id => (last.status = 200 /\ last.bytes = p[2])

\* the second file of a two-file upload is fetched: three bytes, stored
\* next to a file with other bytes.
C14_Witness ==
  /\ last.op = "fetch" /\ last.status = 200 /\ last.bytes = <<1, 2, 3>>
  /\ <<last.id, <<1, 2, 3>>>> \in uploadedOk
  /\ \E p \in uploadedOk : p[1] # last.id /\ p[2] # last.bytes

\* C15: an upload request is answered in the step that decides it: 500
\* when the blob write or the metadata insert of one of its files fails,
\* 200 with the document records when the last file is stored; after the
\* answer the handler is gone, so no storage failure leaves a request
\* suspended without a response.
C15_UploadAnswered ==
  [][ \A u \in uploads :
        /\ (UploadError(u) \/ UploadInsertFail(u))
             => /\ last'.op = "upload" /\ last'.status = 500
                /\ Cardinality(uploads') < Cardinality(uploads)
        /\ (UploadInsert(u) /\ u.k = Len(u.files))
             => /\ last'.op = "upload" /\ last'.status = 200
                /\ last'.documents = u.docs
                /\ Cardinality(uploads') < Cardinality(uploads) ]_vars

\* C16: a list answered right after a list of the same document for the
\* same caller, with no write in between, returns the same annotations in
\* the same order, also when annotations have equal createdAt.
C16_ListIdempotent ==
  [][ ( /\ IsList200
        /\ last'.op = "list" /\ last'.status = 200
        /\ last'.userId = last.userId /\ last'.userRole = last.userRole
        /\ last'.documentId = last.documentId
        /\ annotations' = annotations )
        => last'.annotations = last.annotations ]_vars

\* ids in the order of a 200 list response
ListedOrder(resp) == [i \in DOMAIN resp.annotations |-> resp.annotations[i]._id]

\* x comes before y in the sequence of ids s
Before(s, x, y) == \E m, n \in DOMAIN s : m < n /\ s[m] = x /\ s[n] = y

\* C17: every list response is ordered newest first (createdAt never
\* increases from one result to the next), and after the write of an edit
\* every list the same caller can get for the same document keeps each two
\* annotations in the order the list before the edit had them.
C17_ListOrder ==
  [][ /\ IsList200' =>
           \A i \in DOMAIN last'.annotations :
              i + 1 \in DOMAIN last'.annotations =>
                last'.annotations[i].createdAt >= last'.annotations[i + 1].createdAt
      /\ \A q \in inflight :
           (IsList200 /\ q.op = "edit" /\ EditUpdate(q))
             => \A d \in {last.documentId}, u \in {last.userId}, r \in {last.userRole} :
                  \A s \in SortedDesc(Matching(d, u, r))' :
                     \A x, y \in Range(s) :
                        Before(ListedOrder(last), x, y) => Before(s, x, y) ]_vars

\* C18: a fetch of document bytes for an id under which the bucket holds
\* no file answers 404, whatever the id.
C18_FetchUnknown404 ==
  (last.op = "fetch" /\ last.id \notin DOMAIN blobs) => last.status = 404

\* C19: a create by a permitted caller whose documentId names no stored
\* document answers 404 and stores nothing, so the documentId of every
\* stored annotation is the id of a stored document.
C19_CreateChecksDocument ==
  /\ ( /\ last.op = "create" /\ last.userRole \in {"admin", "default"}
       /\ last.body.documentId \notin DOMAIN documents )
       => last.status = 404
  /\ \A id \in DOMAIN annotations :
        annotations[id].documentId \in DOMAIN documents

\* C20: an edit or delete request by a caller whose role is not admin never
\* succeeds: it is answered with an error and starts no write.
C20_MutateAdminOnly ==
  [][ \A c \in AuthCallers, id \in EditParam :
        c[2] # "admin"
          => /\ (\E b \in AuthBodies : EditFind(c[1], c[2], id, b))
                  => (inflight' = inflight /\ last'.status \in {403, 404, 500})
             /\ DeleteFind(c[1], c[2], id)
                  => (inflight' = inflight /\ last'.status \in {403, 404, 500}) ]_vars


\* C21: when every caller is one of A1 (admin), D1, D2 (default) and R1
\* (readonly), no request of R1 succeeds in creating, editing or deleting
\* an annotation or in uploading a document: each is answered with an error
\* and stores or starts nothing, and no stored annotation or document is
\* R1's.
C21_ReadonlyCannotModify ==
  [][ /\ CreateAnnotation("R1", "readonly", Body(Comment, 1, Some(<<"R1">>)))
           => /\ last'.status = 403
              /\ annotations' = annotations /\ nextId' = nextId
      /\ \A id \in EditParam :
           /\ (\E b \in AuthBodies : EditFind("R1", "readonly", id, b))
                => /\ last'.status \in {403, 404, 500}
                   /\ inflight' = inflight /\ annotations' = annotations
           /\ DeleteFind("R1", "readonly", id)
                => /\ last'.status \in {403, 404, 500}
                   /\ inflight' = inflight /\ annotations' = annotations
      /\ UploadStart("R1", "readonly", Some(<<FileB>>))
           => /\ last'.status = 403
              /\ uploads' = uploads /\ blobs' = blobs /\ documents' = documents
      /\ \A id \in DOMAIN annotations' : annotations'[id].createdBy # "R1"
      /\ \A id \in DOMAIN documents' : documents'[id].uploadedBy # "R1" ]_vars

\* R1's edit of a stored annotation whose visibleTo names R1 is refused
\* while a document is stored.
C21_Witness ==
  /\ last.op = "edit" /\ last.status = 403 /\ last.userId = "R1"
  /\ last.id \in DOMAIN annotations
  /\ "R1" \in Range(annotations[last.id].visibleTo)
  /\ DOMAIN documents # {}

\* C22: an edit is an atomic read-modify-write: its write stores the
\* annotation as it is in the store at that moment with the supplied fields
\* replaced, so that concurrent edits of one annotation (one supplying only
\* content, one only visibleTo) end as if applied one after the other and
\* neither change is lost.
C22_EditAtomic ==
  [][ \A q \in inflight :
        (q.op = "edit" /\ EditUpdate(q) /\ q.id \in DOMAIN annotations)
          => /\ annotations'[q.id].content =
                  OrElseString(q.body.content, annotations[q.id].content)
             /\ annotations'[q.id].visibleTo =
                  OrElseList(q.body.visibleTo, annotations[q.id].visibleTo) ]_vars

\* C23: when an upload fails at its file k (blob write or metadata insert),
\* the request is answered 500, and the blob and the metadata record of each
\* of its files before k are stored; stored blobs and records are never
\* removed or changed, and every document list returns all stored records.
C23_NoRollback ==
  [][ /\ \A u \in uploads :
           (UploadError(u) \/ UploadInsertFail(u))
             => /\ last'.op = "upload" /\ last'.status = 500
                /\ Cardinality(uploads') < Cardinality(uploads)
                /\ \A i \in 1..(u.k - 1) :
                     /\ u.docs[i]._id \in DOMAIN documents'
                     /\ documents'[u.docs[i]._id] = u.docs[i]
                     /\ u.docs[i].gridFsId \in DOMAIN blobs'
      /\ \A id \in DOMAIN documents :
           id \in DOMAIN documents' /\ documents'[id] = documents[id]
      /\ \A id \in DOMAIN blobs :
           id \in DOMAIN blobs' /\ blobs'[id] = blobs[id]
      /\ ListDocuments
           => last'.documents = { documents'[id] : id \in DOMAIN documents' } ]_vars

\* C24: once a delete of an annotation has answered 200, no annotation with
\* that id is stored again, also when an edit that read the annotation
\* before the delete writes after it.
C24_NoResurrection ==
  \A id \in deletedOk : id \notin DOMAIN annotations

\* an edit of a deleted annotation has answered 200 after the delete, and
\* no request on that annotation is in flight any more.
C24_Witness ==
  /\ last.op = "edit" /\ last.status = 200 /\ last.id \in deletedOk
  /\ \A q \in inflight : q.id # last.id

\* C25: whenever an edit answers 200 with an annotation, the step that
\* answers leaves an annotation with that id stored whose content and
\* visibleTo are the returned ones.
C25_EditPersisted ==
  [][ \A q \in inflight :
        (q.op = "edit" /\ EditUpdate(q))
          => /\ last'.status = 200
             /\ last'.annotation._id \in DOMAIN annotations'
             /\ annotations'[last'.annotation._id].content = last'.annotation.content
             /\ annotations'[last'.annotation._id].visibleTo = last'.annotation.visibleTo ]_vars

\* C26: for every caller and every stored annotation X, getOne of X
\* answers 200 exactly when the caller's list of X's document holds X.
C26_ReadPathsAgree ==
  (last.op = "getOne" /\ last.id \in DOMAIN annotations)
    => ( last.status = 200
           <=> last.id \in Matching(annotations[last.id].documentId,
                                    last.userId, last.userRole) )

\* C27: an edit or delete request that is answered 403 or 404 leaves every
\* stored annotation, the targeted one and its updatedAt included, exactly
\* as it was, and has no write pending.
C27_RejectedChangesNothing ==
  [][ \A c \in AuthCallers, id \in EditParam :
        ( /\ \/ \E b \in AuthBodies : EditFind(c[1], c[2], id, b)
             \/ DeleteFind(c[1], c[2], id)
          /\ last' # last /\ last'.status \in {403, 404} )
          => /\ annotations' = annotations
             /\ inflight' = inflight
             /\ deletedOk' = deletedOk ]_vars

\* a delete by a caller that is neither the creator nor admin has been
\* answered 403 and the annotation is stored.
C27_Witness ==
  /\ last.op = "delete" /\ last.status = 403
  /\ last.id \in DOMAIN annotations
  /\ annotations[last.id].createdBy # last.userId /\ last.userRole = "default"

\* A document record whose blob is stored whole under the record's id.
Fetchable(d) ==
  /\ d._id = d.gridFsId
  /\ d._id \in DOMAIN blobs
  /\ Len(Join(blobs[d._id].chunks)) = blobs[d._id].length
  /\ blobs[d._id].length = d.size

\* C28: every document record a list request returns has an id equal to
\* its blob reference and the blob of that id is in the bucket with all of
\* its bytes; a fetch of a stored document's id answers 200 with as many
\* bytes as the record's size; and no stored blob is ever removed or changed.
C28_ListedFetchable ==
  [][ /\ ListDocuments =>
           /\ last'.documents = { documents[i] : i \in DOMAIN documents }
           /\ \A d \in last'.documents : Fetchable(d)
      /\ \A id \in DOMAIN documents :
           FetchDocument(id) => /\ last'.status = 200
                                /\ Len(last'.bytes) = documents[id].size
      /\ \A id \in DOMAIN blobs :
           id \in DOMAIN blobs' /\ blobs'[id] = blobs[id] ]_vars

\* the list answered with the first file of a two-file upload while the
\* blob of the second file is still being written.
C28_Witness ==
  /\ last.op = "listDocs" /\ last.documents # {}
  /\ \E u \in uploads : u.pc = "write" /\ u.k = 2

\* C29: once a document is open and no request of the viewer is under way,
\* the annotations on display are the list the server returns for the
\* selected user and the open document.
C29_ViewerShowsCurrent ==
  (selectedDoc # None /\ fetches = {} /\ posts = {})
    => viewer.annotations \in
         SortedDesc(Matching(selectedDoc[1], currentUser.id, currentUser.role))

\* C30: no create request of the viewer carries the role readonly.
C30_NoReadonlyPost == \A p \in posts : p.userRole # "readonly"

====
